---- MODULE Spec2Model ----
(***************************************************************************)
(* A model of relic's ZIP slicer (lib/zipslicer/directory.go): reading a   *)
(* central directory (FindDirectory, ReadWithDirectory, Read), writing it  *)
(* back (WriteDirectory, Truncate), growing it (AddFile) and the           *)
(* forward-only stream reader (streamReaderAt).                            *)
(*                                                                         *)
(* Bytes.  A blob is a sequence of byte positions.  A little-endian field  *)
(* of w bytes holding v is w positions: v in the first, zero in the other  *)
(* w-1.  Every structure therefore has its real length in bytes (46, 22,   *)
(* 56, 20) and every slice of the code (cd[46:], extra[4:4+size], e[8:])   *)
(* is the same slice here.                                                 *)
(*                                                                         *)
(* Widths.  TLC's integers are 32 bits wide, and a directory of 0xFFFF     *)
(* entries cannot be enumerated, so the two limits the code compares       *)
(* against are scaled: uint16Max stands for 0xFFFF (the entry count) and   *)
(* uint32Max for 0xFFFFFFFF (sizes and offsets).  A conversion uint16(x)   *)
(* or uint32(x) is x modulo the limit plus one, as in the code.  64-bit    *)
(* values never wrap in any run modelled and are plain naturals.  The      *)
(* 16-bit length fields of a header (FilenameLen, ExtraLen, CommentLen)    *)
(* hold lengths far below 0xFFFF and are kept as they are.                 *)
(***************************************************************************)
EXTENDS Integers, Sequences, FiniteSets, TLC

\* ------------------------------------------------------------------ limits
\* Scaled stand-in for 0xFFFF, the sentinel and limit of the entry count.
uint16Max == 3
\* Scaled stand-in for 0xFFFFFFFF, the sentinel and limit of sizes and offsets.
uint32Max == 255

uint16(x) == x % (uint16Max + 1)
uint32(x) == x % (uint32Max + 1)

\* ------------------------------------------------------- format constants
directoryHeaderSignature == 33639248
directoryEndSignature == 101010256
directory64LocSignature == 117853008
directory64EndSignature == 101075792
fileHeaderLen == 30
directoryHeaderLen == 46
directoryEndLen == 22
directory64LocLen == 20
directory64EndLen == 56
zip64ExtraID == 1
zip45 == 45
zip20 == 20

\* ------------------------------------------------------------------ bytes
Zeros(n) == [i \in 1..n |-> 0]
\* binary.Write of one little-endian field of w bytes.
Put(w, v) == <<v>> \o Zeros(w - 1)
\* The field that starts at byte offset off of b; binary.Read leaves a field
\* it cannot fill at zero.
Get(b, off) == IF off + 1 <= Len(b) THEN b[off + 1] ELSE 0
Take(b, n) == SubSeq(b, 1, n)
Drop(b, n) == SubSeq(b, n + 1, Len(b))

Max(a, b) == IF a >= b THEN a ELSE b

\* ------------------------------------------------------------- structures
\* zipCentralDir, 46 bytes.
EncCentralDir(h) ==
    Put(4, directoryHeaderSignature) \o Put(2, h.CreatorVersion)
    \o Put(2, h.ReaderVersion) \o Zeros(8) \o Put(4, h.CRC32)
    \o Put(4, h.CompressedSize) \o Put(4, h.UncompressedSize)
    \o Put(2, h.FilenameLen) \o Put(2, h.ExtraLen) \o Put(2, h.CommentLen)
    \o Zeros(8) \o Put(4, h.Offset)

DecCentralDir(b) ==
    [Signature |-> Get(b, 0), CreatorVersion |-> Get(b, 4),
     ReaderVersion |-> Get(b, 6), CRC32 |-> Get(b, 16),
     CompressedSize |-> Get(b, 20), UncompressedSize |-> Get(b, 24),
     FilenameLen |-> Get(b, 28), ExtraLen |-> Get(b, 30),
     CommentLen |-> Get(b, 32), Offset |-> Get(b, 42)]

\* zipEndRecord, 22 bytes.
zeroEnd ==
    [Signature |-> 0, DiskCDCount |-> 0, TotalCDCount |-> 0, CDSize |-> 0,
     CDOffset |-> 0]

EncEnd(e) ==
    Put(4, e.Signature) \o Zeros(4) \o Put(2, e.DiskCDCount)
    \o Put(2, e.TotalCDCount) \o Put(4, e.CDSize) \o Put(4, e.CDOffset)
    \o Zeros(2)

DecEnd(b) ==
    [Signature |-> Get(b, 0), DiskCDCount |-> Get(b, 8),
     TotalCDCount |-> Get(b, 10), CDSize |-> Get(b, 12),
     CDOffset |-> Get(b, 16)]

\* zip64End, 56 bytes.
zeroEnd64 ==
    [Signature |-> 0, RecordSize |-> 0, CreatorVersion |-> 0,
     ReaderVersion |-> 0, DiskCDCount |-> 0, TotalCDCount |-> 0,
     CDSize |-> 0, CDOffset |-> 0]

EncEnd64(e) ==
    Put(4, e.Signature) \o Put(8, e.RecordSize) \o Put(2, e.CreatorVersion)
    \o Put(2, e.ReaderVersion) \o Zeros(8) \o Put(8, e.DiskCDCount)
    \o Put(8, e.TotalCDCount) \o Put(8, e.CDSize) \o Put(8, e.CDOffset)

DecEnd64(b) ==
    [Signature |-> Get(b, 0), RecordSize |-> Get(b, 4),
     CreatorVersion |-> Get(b, 12), ReaderVersion |-> Get(b, 14),
     DiskCDCount |-> Get(b, 24), TotalCDCount |-> Get(b, 32),
     CDSize |-> Get(b, 40), CDOffset |-> Get(b, 48)]

\* zip64Loc, 20 bytes.
zeroLoc64 == [Signature |-> 0, Offset |-> 0, DiskCount |-> 0]

EncLoc64(l) ==
    Put(4, l.Signature) \o Zeros(4) \o Put(8, l.Offset) \o Put(4, l.DiskCount)

DecLoc64(b) ==
    [Signature |-> Get(b, 0), Offset |-> Get(b, 8), DiskCount |-> Get(b, 16)]

\* One extra-field block: tag, size, payload.
ExtraBlock(tag, payload) == Put(2, tag) \o Put(2, Len(payload)) \o payload

\* The ZIP64 payload holding the given 64-bit values in order.
RECURSIVE Vals64(_)
Vals64(vs) == IF vs = <<>> THEN <<>> ELSE Put(8, Head(vs)) \o Vals64(Tail(vs))

\* ------------------------------------------------------------------- File
\* A File object: the fields of zipslicer.File the directory code reads or
\* writes.  raw is the cached central-directory header (<<>> is nil); lfhOK
\* says whether the file's local header can be read from its source, which
\* is what GetTotalSize needs.
NewFile(name, rv, crc, csize, usize, off, extra, comment, raw, ok) ==
    [Name |-> name, ReaderVersion |-> rv, CRC32 |-> crc,
     CompressedSize |-> csize, UncompressedSize |-> usize, Offset |-> off,
     Extra |-> extra, Comment |-> comment, raw |-> raw, lfhOK |-> ok]

\* The extra field without its ZIP64 block.
RECURSIVE StripZip64(_)
StripZip64(extra) ==
    IF Len(extra) < 4 THEN extra
    ELSE LET tag == Get(extra, 0)
             size == Get(extra, 2)
         IN IF size > Len(extra) - 4 THEN extra
            ELSE IF tag = zip64ExtraID THEN StripZip64(Drop(extra, 4 + size))
            ELSE Take(extra, 4 + size) \o StripZip64(Drop(extra, 4 + size))

NeedsZip64(f) ==
    \/ f.CompressedSize >= uint32Max
    \/ f.UncompressedSize >= uint32Max
    \/ f.Offset >= uint32Max

\* File.GetDirectoryHeader: the cached header when there is one, else the
\* header serialized from the fields, with a ZIP64 extra holding
\* uncompressed size, compressed size and offset exactly when one of them
\* does not fit 32 bits.
GetDirectoryHeader(f) ==
    IF f.raw # <<>> THEN f.raw
    ELSE LET z == NeedsZip64(f)
             extra == StripZip64(f.Extra) \o
                      (IF z THEN ExtraBlock(zip64ExtraID,
                                   Vals64(<<f.UncompressedSize,
                                            f.CompressedSize, f.Offset>>))
                       ELSE <<>>)
         IN EncCentralDir(
                [CreatorVersion |-> 0, ReaderVersion |-> f.ReaderVersion,
                 CRC32 |-> f.CRC32,
                 CompressedSize |-> IF z THEN uint32Max ELSE f.CompressedSize,
                 UncompressedSize |-> IF z THEN uint32Max
                                      ELSE f.UncompressedSize,
                 FilenameLen |-> Len(f.Name), ExtraLen |-> Len(extra),
                 CommentLen |-> Len(f.Comment),
                 Offset |-> IF z THEN uint32Max ELSE f.Offset])
            \o f.Name \o extra \o f.Comment

\* File.GetTotalSize: local header, data and data descriptor; it fails when
\* the local header cannot be read.  ok is FALSE on failure.
GetTotalSize(f) ==
    [ok |-> f.lfhOK,
     size |-> fileHeaderLen + Len(f.Name) + f.CompressedSize]

\* File.GetLocalHeader: the local header read at f.Offset, of len bytes; it
\* fails when the header cannot be read.
GetLocalHeader(f) == [ok |-> f.lfhOK, len |-> fileHeaderLen + Len(f.Name)]

\* ------------------------------------------------------ ReadWithDirectory
\* Zip64Values with the offset taken from the place of the compressed size.
Zip64ValuesOffsetAt8(st, e, size) ==
    LET s1 == IF st.needUSize /\ size >= 8
              THEN [st EXCEPT !.UncompressedSize = Get(e, 0),
                              !.needUSize = FALSE]
              ELSE st
        s2 == IF s1.needCSize /\ size >= 16
              THEN [s1 EXCEPT !.CompressedSize = Get(e, 8),
                              !.needCSize = FALSE]
              ELSE s1
    IN IF s2.needOffset /\ size >= 24
       THEN [s2 EXCEPT !.Offset = Get(e, 8), !.needOffset = FALSE]
       ELSE s2

\* The three 64-bit values of a ZIP64 extra of `size` bytes, e its payload:
\* each is taken from its fixed place when the base field was the sentinel
\* and the payload reaches that far.
Zip64Values(st, e, size) ==
    LET s1 == IF st.needUSize /\ size >= 8
              THEN [st EXCEPT !.UncompressedSize = Get(e, 0),
                              !.needUSize = FALSE]
              ELSE st
        s2 == IF s1.needCSize /\ size >= 16
              THEN [s1 EXCEPT !.CompressedSize = Get(e, 8),
                              !.needCSize = FALSE]
              ELSE s1
    IN IF s2.needOffset /\ size >= 24
       THEN [s2 EXCEPT !.Offset = Get(e, 16), !.needOffset = FALSE]
       ELSE s2

\* The loop over the blocks of one entry's extra field.
RECURSIVE ExtraLoop(_, _)
ExtraLoop(st, extra) ==
    IF Len(extra) < 4 THEN st
    ELSE LET tag == Get(extra, 0)
             size == Get(extra, 2)
         IN IF size > Len(extra) - 4 THEN st
            ELSE IF tag = zip64ExtraID
                 THEN Zip64Values(st, SubSeq(extra, 5, 4 + size), size)
            ELSE ExtraLoop(st, Drop(extra, 4 + size))

\* Whether an entry whose extra field has been walked is refused.
MissingZip64(st) == st.needCSize \/ st.needOffset

\* One central-directory record at the head of cd: the File it yields, the
\* rest of cd, or the error.
ReadEntry(cd) ==
    LET hdr == DecCentralDir(cd)
        rawLen == directoryHeaderLen + hdr.FilenameLen + hdr.ExtraLen
                  + hdr.CommentLen
        name == SubSeq(cd, directoryHeaderLen + 1,
                       directoryHeaderLen + hdr.FilenameLen)
        extra == SubSeq(cd, directoryHeaderLen + hdr.FilenameLen + 1,
                        directoryHeaderLen + hdr.FilenameLen + hdr.ExtraLen)
        comment == SubSeq(cd, directoryHeaderLen + hdr.FilenameLen
                              + hdr.ExtraLen + 1, rawLen)
        st == ExtraLoop(
                  [UncompressedSize |-> hdr.UncompressedSize,
                   CompressedSize |-> hdr.CompressedSize,
                   Offset |-> hdr.Offset,
                   needUSize |-> hdr.UncompressedSize = uint32Max,
                   needCSize |-> hdr.CompressedSize = uint32Max,
                   needOffset |-> hdr.Offset = uint32Max], extra)
    IN IF Len(cd) < rawLen THEN [err |-> "panic"]
       ELSE IF MissingZip64(st) THEN [err |-> "missing ZIP64 header"]
       ELSE [err |-> "ok",
             file |-> NewFile(name, hdr.ReaderVersion, hdr.CRC32,
                              st.CompressedSize, st.UncompressedSize,
                              st.Offset, extra, comment, Take(cd, rawLen),
                              TRUE),
             rest |-> Drop(cd, rawLen)]

\* The loop over the records: it stops at the first four bytes that are no
\* central-directory signature.
RECURSIVE ReadEntries(_, _)
ReadEntries(cd, files) ==
    IF Len(cd) < 4 THEN [err |-> "panic"]
    ELSE IF Get(cd, 0) # directoryHeaderSignature
         THEN [err |-> "ok", files |-> files, rest |-> cd]
    ELSE LET e == ReadEntry(cd)
         IN IF e.err # "ok" THEN [err |-> e.err]
            ELSE ReadEntries(e.rest, Append(files, e.file))

noDirectory(err) ==
    [err |-> err, File |-> <<>>, Size |-> 0, DirLoc |-> 0,
     end64 |-> zeroEnd64, loc64 |-> zeroLoc64, end |-> zeroEnd]

\* ReadWithDirectory(r, size, cd): File holds the File objects read.
ReadWithDirectory(size, cd) ==
    LET es == ReadEntries(cd, <<>>)
    IN IF es.err # "ok" THEN noDirectory(es.err)
       ELSE LET sig == Get(es.rest, 0)
                d == [err |-> "ok", File |-> es.files, Size |-> size,
                      DirLoc |-> size - Len(cd), end64 |-> zeroEnd64,
                      loc64 |-> zeroLoc64, end |-> zeroEnd]
            IN IF sig = directory64EndSignature
               THEN [d EXCEPT
                       !.end64 = DecEnd64(es.rest),
                       !.loc64 = DecLoc64(Drop(es.rest, directory64EndLen)),
                       !.end = DecEnd(Drop(es.rest, directory64EndLen
                                                    + directory64LocLen))]
               ELSE IF sig = directoryEndSignature
                    THEN [d EXCEPT !.end = DecEnd(es.rest)]
               ELSE noDirectory("expected end record")

\* --------------------------------------------------------- WriteDirectory
\* minVersion after the loop over the entries.
RECURSIVE MaxReaderVersion(_, _)
MaxReaderVersion(files, m) ==
    IF files = <<>> THEN m
    ELSE MaxReaderVersion(Tail(files), Max(Head(files).ReaderVersion, m))

\* The central-directory headers of the files, concatenated.
RECURSIVE Headers(_)
Headers(files) ==
    IF files = <<>> THEN <<>>
    ELSE GetDirectoryHeader(Head(files)) \o Headers(Tail(files))

\* Zip64Required without the test of the directory offset.
Zip64RequiredNoOffset(count, size, cdoff, forceZip64) ==
    count >= uint16Max \/ size >= uint32Max \/ forceZip64

\* The condition that sets minVersion to zip45.
Zip64Required(count, size, cdoff, forceZip64) ==
    count >= uint16Max \/ size >= uint32Max \/ cdoff >= uint32Max
    \/ forceZip64

\* minVersion when the end records are chosen.
MinVersion(files, count, size, cdoff, forceZip64) ==
    IF Zip64Required(count, size, cdoff, forceZip64) THEN zip45
    ELSE MaxReaderVersion(files, zip20)

\* The 32-bit end record of a directory written without ZIP64.
End32(count, size, cdoff) ==
    [Signature |-> directoryEndSignature, DiskCDCount |-> uint16(count),
     TotalCDCount |-> uint16(count), CDSize |-> uint32(size),
     CDOffset |-> uint32(cdoff)]

\* WriteDirectory(wcd, weod, forceZip64) on the files of a directory at
\* DirLoc: what went to wcd, what went to weod, and the records written.
WriteDirectory(files, DirLoc, forceZip64) ==
    LET cd == Headers(files)
        count == Len(files)
        size == Len(cd)
        cdoff == DirLoc
        minVersion == MinVersion(files, count, size, cdoff, forceZip64)
        end64 == [Signature |-> directory64EndSignature,
                  RecordSize |-> directory64EndLen - 12,
                  CreatorVersion |-> zip45, ReaderVersion |-> minVersion,
                  DiskCDCount |-> count, TotalCDCount |-> count,
                  CDSize |-> size, CDOffset |-> cdoff]
        loc64 == [Signature |-> directory64LocSignature,
                  Offset |-> cdoff + size, DiskCount |-> 1]
        endS == [Signature |-> directoryEndSignature,
                 DiskCDCount |-> uint16Max, TotalCDCount |-> uint16Max,
                 CDSize |-> uint32Max, CDOffset |-> uint32Max]
    IN IF minVersion = zip45
       THEN [zip64 |-> TRUE, wcd |-> cd,
             weod |-> EncEnd64(end64) \o EncLoc64(loc64) \o EncEnd(endS),
             end64 |-> end64, loc64 |-> loc64, end |-> endS]
       ELSE [zip64 |-> FALSE, wcd |-> cd,
             weod |-> EncEnd(End32(count, size, cdoff)),
             end64 |-> zeroEnd64, loc64 |-> zeroLoc64,
             end |-> End32(count, size, cdoff)]

\* ---------------------------------------------------------------- archive
\* An archive behind an io.ReaderAt: pre bytes of file contents followed by
\* the bytes cd (the central directory and the end records).  The contents
\* are not inspected by the directory code; they read as zero bytes.
Archive(pre, cd) == [pre |-> pre, cd |-> cd]
ArchiveSize(a) == a.pre + Len(a.cd)

\* r.ReadAt(buf[:n], pos): an error when pos is negative or the archive ends
\* before pos+n.
ReadAt(a, pos, n) ==
    IF pos < 0 \/ pos + n > ArchiveSize(a) THEN [err |-> "read error", b |-> <<>>]
    ELSE [err |-> "ok",
          b |-> [i \in 1..n |->
                   IF pos + i <= a.pre THEN 0 ELSE a.cd[pos + i - a.pre]]]

\* Whether a 32-bit end record refers to the ZIP64 records.
HasSentinel(end) ==
    end.TotalCDCount = uint16Max \/ end.CDSize = uint32Max
    \/ end.CDOffset = uint32Max

\* FindDirectory(r, size): the offset of the central directory.
FindDirectory(a) ==
    LET size == ArchiveSize(a)
        pos == size - directoryEndLen - directory64LocLen
        endb == ReadAt(a, pos, directoryEndLen + directory64LocLen)
        loc64 == DecLoc64(endb.b)
        end == DecEnd(Drop(endb.b, directory64LocLen))
        end64b == ReadAt(a, loc64.Offset, directory64EndLen)
        end64 == DecEnd64(end64b.b)
    IN IF endb.err # "ok" THEN [err |-> endb.err, loc |-> 0]
       ELSE IF end.Signature # directoryEndSignature
            THEN [err |-> "zip central directory not found", loc |-> 0]
       ELSE IF HasSentinel(end)
            THEN IF loc64.Signature # directory64LocSignature
                 THEN [err |-> "expected ZIP64 locator", loc |-> 0]
                 ELSE IF end64b.err # "ok" THEN [err |-> end64b.err, loc |-> 0]
                 ELSE IF end64.Signature # directory64EndSignature
                      THEN [err |-> "zip central directory not found",
                            loc |-> 0]
                 ELSE [err |-> "ok", loc |-> end64.CDOffset]
       ELSE [err |-> "ok", loc |-> end.CDOffset]

\* Read(r, size).
Read(a) ==
    LET size == ArchiveSize(a)
        found == FindDirectory(a)
        cd == ReadAt(a, found.loc, size - found.loc)
    IN IF found.err # "ok" THEN noDirectory(found.err)
       ELSE IF size - found.loc < 0 THEN noDirectory("panic")
       ELSE IF cd.err # "ok" THEN noDirectory(cd.err)
       ELSE ReadWithDirectory(size, cd.b)

\* --------------------------------------------------------------- Truncate
\* The bytes the body loop copies: the total sizes of the first n files.
RECURSIVE BodyLen(_, _)
BodyLen(files, n) ==
    IF n = 0 THEN 0
    ELSE GetTotalSize(files[n]).size + BodyLen(files, n - 1)

\* Whether the 32-bit branch refuses the truncated directory.
TooBigFor32(cdOffset, n, size) == cdOffset >= uint32Max \/ n >= uint16Max

\* d.Truncate(n, body, dir) with the File objects of d in files: the error,
\* the number of bytes written to body and the bytes written to dir.  An
\* index past the end of d.File panics.
Truncate(d, files, n) ==
    LET bodyOK == \A i \in 1..n : i <= Len(files) /\ GetTotalSize(files[i]).ok
        cdOffset == files[n + 1].Offset
        hdrs == Headers(SubSeq(files, 1, n))
        size == Len(hdrs)
        end64 == [d.end64 EXCEPT !.DiskCDCount = n, !.TotalCDCount = n,
                                 !.CDSize = size, !.CDOffset = cdOffset]
        loc == [d.loc64 EXCEPT !.Offset = cdOffset + size]
        end32 == [d.end EXCEPT !.DiskCDCount = uint16(n),
                               !.TotalCDCount = uint16(n),
                               !.CDSize = uint32(size),
                               !.CDOffset = uint32(cdOffset)]
        none == [body |-> 0, dir |-> <<>>, end |-> zeroEnd, size |-> 0,
                 cdOffset |-> 0]
    IN IF n > Len(files) THEN [err |-> "panic"] @@ none
       ELSE IF ~bodyOK THEN [err |-> "read error"] @@ none
       ELSE IF n >= Len(files)
            THEN [err |-> "panic", body |-> BodyLen(files, n), dir |-> <<>>,
                  end |-> zeroEnd, size |-> 0, cdOffset |-> 0]
       ELSE IF d.end64.Signature # 0
            THEN [err |-> "ok", body |-> BodyLen(files, n),
                  dir |-> hdrs \o EncEnd64(end64) \o EncLoc64(loc)
                          \o EncEnd(d.end),
                  end |-> d.end, size |-> size, cdOffset |-> cdOffset]
       ELSE IF TooBigFor32(cdOffset, n, size)
            THEN [err |-> "file too big for 32-bit ZIP",
                  body |-> BodyLen(files, n), dir |-> hdrs, end |-> zeroEnd,
                  size |-> size, cdOffset |-> cdOffset]
       ELSE [err |-> "ok", body |-> BodyLen(files, n),
             dir |-> hdrs \o EncEnd(end32), end |-> end32, size |-> size,
             cdOffset |-> cdOffset]

\* ---------------------------------------------------------------- AddFile
\* Whether AddFile drops the cached header of f.
InvalidatesRaw(f, offset) == f.Offset # offset

\* The File object after AddFile has placed it at offset.
Placed(f, offset) ==
    [f EXCEPT !.raw = IF InvalidatesRaw(f, offset) THEN <<>> ELSE f.raw,
              !.Offset = offset]

\* DirLoc after a file of the given total size has been added.
Advance(DirLoc, size) == DirLoc + size

\* --------------------------------------------------------- streamReaderAt
\* A streamReaderAt s: pos is its position, under the number of bytes taken
\* from the stream below it so far, len the length of that stream.

\* r.r.Read(d) returning n bytes, d of dlen bytes.
StreamRead(s, dlen, n) ==
    [sr |-> [s EXCEPT !.pos = s.pos + n, !.under = s.under + n], n |-> n,
     err |-> IF n = 0 /\ dlen > 0 THEN "EOF" ELSE "ok"]

\* ReadAt that reads on where it stands when asked for an earlier offset.
StreamReadAtNoCheck(s, p, dlen, n) ==
    IF p > s.pos
    THEN IF s.len - s.under < p - s.pos
         THEN [sr |-> [s EXCEPT !.under = s.len], n |-> 0, err |-> "EOF"]
         ELSE StreamRead([s EXCEPT !.pos = p,
                                   !.under = s.under + (p - s.pos)], dlen, n)
    ELSE StreamRead(s, dlen, n)

\* (r *streamReaderAt) ReadAt(d, p), n the count the stream's Read returns
\* when it is reached.  io.CopyN takes what the stream still has and fails
\* when that is less than the distance to p.
StreamReadAt(s, p, dlen, n) ==
    IF p > s.pos
    THEN IF s.len - s.under < p - s.pos
         THEN [sr |-> [s EXCEPT !.under = s.len], n |-> 0, err |-> "EOF"]
         ELSE StreamRead([s EXCEPT !.pos = p,
                                   !.under = s.under + (p - s.pos)], dlen, n)
    ELSE IF p < s.pos
         THEN [sr |-> s, n |-> 0, err |-> "attempted to seek backwards"]
    ELSE StreamRead(s, dlen, n)

\* ------------------------------------------------------------------ pkcs9
\* The attribute types under which a timestamp is looked for and attached.
OidAttributeTimeStampToken == "OidAttributeTimeStampToken"
OidSpcTimeStampToken == "OidSpcTimeStampToken"
OidAttributeCounterSign == "OidAttributeCounterSign"

\* UnauthenticatedAttributes is the sequence of the attribute types present.
\* GetOne(oid, &dest): ErrNoAttribute when no attribute has the type.
GetOne(attrs, oid) ==
    IF \E i \in 1..Len(attrs) : attrs[i] = oid THEN "ok" ELSE "ErrNoAttribute"

\* The attribute type of AddStampToSignedAuthenticode / AddStampToSignedData.
StampOidGeneric(authenticode) == OidAttributeTimeStampToken
StampOid(authenticode) ==
    IF authenticode THEN OidSpcTimeStampToken ELSE OidAttributeTimeStampToken

\* VerifyPkcs7(sig): the timestamp token under either type is verified by
\* Verify, a counter-signature by finishVerify (tsOK: whether that
\* verification passes); no timestamp at all is no error and no result.
VerifyPkcs7(attrs, tsOK) ==
    LET e1 == GetOne(attrs, OidAttributeTimeStampToken)
        err == IF e1 = "ErrNoAttribute"
               THEN GetOne(attrs, OidSpcTimeStampToken) ELSE e1
        checked == IF tsOK THEN [err |-> "ok", cs |-> "token"]
                   ELSE [err |-> "timestamp invalid", cs |-> "nil"]
    IN IF err = "ok" THEN checked
       ELSE IF GetOne(attrs, OidAttributeCounterSign) = "ErrNoAttribute"
            THEN [err |-> "ok", cs |-> "nil"]
       ELSE checked

\* VerifyOptionalTimestamp(sig).
VerifyOptionalTimestamp(attrs, tsOK) == VerifyPkcs7(attrs, tsOK)

\* VerifyMicrosoftToken(token, encryptedDigest).  token.sigOK: whether
\* token.Content.Verify passes; token.content: the bytes of its ContentInfo
\* or "unreadable"; token.signingTime: its signing-time authenticated
\* attribute or "none".  warned: the mismatch warning was logged.
VerifyMicrosoftTokenStrict(token, encryptedDigest) ==
    IF ~token.sigOK
    THEN [err |-> "verify", SigningTime |-> "nil", warned |-> FALSE]
    ELSE IF token.content = "unreadable"
    THEN [err |-> "content", SigningTime |-> "nil", warned |-> FALSE]
    ELSE IF token.content # encryptedDigest
    THEN [err |-> "timestamp does not match the enclosing signature",
          SigningTime |-> "nil", warned |-> FALSE]
    ELSE IF token.signingTime = "none"
    THEN [err |-> "ErrNoAttribute", SigningTime |-> "nil", warned |-> FALSE]
    ELSE [err |-> "ok", SigningTime |-> token.signingTime, warned |-> FALSE]
VerifyMicrosoftToken(token, encryptedDigest) ==
    IF ~token.sigOK
    THEN [err |-> "verify", SigningTime |-> "nil", warned |-> FALSE]
    ELSE IF token.content = "unreadable"
    THEN [err |-> "content", SigningTime |-> "nil", warned |-> FALSE]
    ELSE LET warned == token.content # encryptedDigest
         IN IF token.signingTime = "none"
            THEN [err |-> "ErrNoAttribute", SigningTime |-> "nil",
                  warned |-> warned]
            ELSE [err |-> "ok", SigningTime |-> token.signingTime,
                  warned |-> warned]

\* ------------------------------------------------------------------ state
VARIABLES
    heap,   \* the File objects, by address: d.File and the callers hold addresses
    d,      \* the Directory under work
    nadd,   \* the files appended to d by AddFile so far
    res,    \* the last operation and what it returned or wrote
    arch,   \* the archive handed to FindDirectory / ReadWithDirectory
    sr,     \* the streamReaderAt and the stream under it
    stamp   \* a call of TimestampAndMarshal or VerifyMicrosoftToken under way

vars == <<heap, d, nadd, res, arch, sr, stamp>>

\* ----------------------------------------------------------------- bounds
\* AddFile calls that append, per run.
MaxAdds == 3
\* The length of the stream under a streamReaderAt.
MaxStream == 5
\* The length of the buffer of one ReadAt.
MaxRead == 2

\* ----------------------------------------------------------------- inputs
\* One central-directory record as an archive holds it, from the values of
\* its base fields.
Rec(name, rv, crc, csz, usz, off, extra, comment) ==
    EncCentralDir([CreatorVersion |-> 0, ReaderVersion |-> rv, CRC32 |-> crc,
                   CompressedSize |-> csz, UncompressedSize |-> usz,
                   FilenameLen |-> Len(name), ExtraLen |-> Len(extra),
                   CommentLen |-> Len(comment), Offset |-> off])
    \o name \o extra \o comment

PlainEnd(count, size, off) ==
    EncEnd([Signature |-> directoryEndSignature, DiskCDCount |-> count,
            TotalCDCount |-> count, CDSize |-> size, CDOffset |-> off])

\* The ZIP64 end record and locator of a directory of count entries and size
\* bytes at off.
Zip64Ends(count, size, off) ==
    EncEnd64([Signature |-> directory64EndSignature,
              RecordSize |-> directory64EndLen - 12, CreatorVersion |-> zip45,
              ReaderVersion |-> zip45, DiskCDCount |-> count,
              TotalCDCount |-> count, CDSize |-> size, CDOffset |-> off])
    \o EncLoc64([Signature |-> directory64LocSignature, Offset |-> off + size,
                 DiskCount |-> 1])

\* A comment long enough that two such headers exceed the 32-bit size limit
\* and one of them with two short headers does not.
BigComment == (uint32Max \div 2) - 40
\* A size that does not fit 32 bits.
BigSize == uint32Max + 45

\* The files of a source directory, as Read leaves them (cached headers,
\* offsets of the source): a plain file, a small file that needs version
\* 4.5, a file of version 6.3 with a long comment, a plain file of large
\* contents, a ZIP64 file and a file whose local header cannot be read.
SrcCD ==
    Rec(<<97>>, zip20, 11, 10, 10, 0, <<>>, <<>>)
    \o Rec(<<98>>, zip45, 12, 5, 5, 41, <<>>, <<>>)
    \o Rec(<<99>>, 63, 13, 10, 10, 77, <<>>, Zeros(BigComment))
    \o Rec(<<102>>, zip20, 16, uint32Max - 55, uint32Max - 55, 118, <<>>, <<>>)
    \o Rec(<<100>>, zip45, 14, uint32Max, uint32Max, uint32Max,
           ExtraBlock(zip64ExtraID,
                      Vals64(<<BigSize + 7, BigSize, uint32Max + 94>>)),
           <<>>)
    \o Rec(<<101>>, zip20, 15, 3, 3, 7, <<>>, <<>>)

SrcFiles ==
    LET fs == ReadEntries(SrcCD \o Zeros(4), <<>>).files
    IN [i \in 1..Len(fs) |->
          IF i = Len(fs) THEN [fs[i] EXCEPT !.lfhOK = FALSE] ELSE fs[i]]

\* The archives a run starts from: one file with a long comment; a ZIP64
\* archive (one plain file, one ZIP64 file) whose 32-bit end record holds
\* the sentinels; an archive that carries the ZIP64 records while its 32-bit
\* end record holds the real values.
StartArchives ==
    LET x == Rec(<<120>>, zip20, 21, 10, 10, 0, <<>>, Zeros(BigComment))
        y == Rec(<<121>>, zip20, 22, 10, 10, 0, <<>>, <<>>)
        z == Rec(<<122>>, zip45, 23, uint32Max, uint32Max, uint32Max,
                 ExtraBlock(zip64ExtraID, Vals64(<<BigSize, BigSize, 41>>)),
                 <<>>)
        w == Rec(<<119>>, zip20, 24, 4, 4, 41, <<>>, <<>>)
        zoff == 41 + fileHeaderLen + 1 + BigSize
    IN { Archive(41, x \o PlainEnd(1, Len(x), 41)),
         Archive(zoff, y \o z \o Zip64Ends(2, Len(y \o z), zoff)
                       \o PlainEnd(uint16Max, uint32Max, uint32Max)),
         Archive(76, y \o w \o Zip64Ends(2, Len(y \o w), 76)
                     \o PlainEnd(2, Len(y \o w), 76)) }

\* A Directory value from what ReadWithDirectory returned, its File objects
\* at the addresses 1..n of the heap.
DirOf(r) ==
    [File |-> [i \in 1..Len(r.File) |-> i], Size |-> r.Size,
     DirLoc |-> r.DirLoc, end64 |-> r.end64, loc64 |-> r.loc64,
     end |-> r.end]

\* The zero Directory, &Directory{}.
zeroDirectory ==
    [File |-> <<>>, Size |-> 0, DirLoc |-> 0, end64 |-> zeroEnd64,
     loc64 |-> zeroLoc64, end |-> zeroEnd]

\* The File objects of d, in order.
Files(h, dir) == [i \in 1..Len(dir.File) |-> h[dir.File[i]]]

noWrite ==
    [zip64 |-> FALSE, wcd |-> <<>>, weod |-> <<>>, end64 |-> zeroEnd64,
     loc64 |-> zeroLoc64, end |-> zeroEnd]
noTruncate ==
    [err |-> "", body |-> 0, dir |-> <<>>, end |-> zeroEnd, size |-> 0,
     cdOffset |-> 0]
noAdd ==
    [f |-> 0, ok |-> FALSE, before |-> <<>>, DirLoc |-> 0, File |-> <<>>,
     contents |-> FALSE, w |-> 0, heap |-> <<>>]
noFound == [err |-> "", loc |-> 0]
noReadAt ==
    [p |-> 0, dlen |-> 0, n |-> 0, err |-> "", pos |-> 0, under |-> 0]
noRes ==
    [op |-> "none", n |-> 0, forceZip64 |-> FALSE, w |-> noWrite,
     t |-> noTruncate, a |-> noAdd, found |-> noFound,
     rd |-> noDirectory(""), s |-> noReadAt]

noStream == [len |-> 0, pos |-> 0, under |-> 0]

\* No call of the pkcs9 functions under way.
noToken == [sigOK |-> FALSE, content |-> "unreadable", signingTime |-> "none"]
noReturn == [err |-> "", Raw |-> "nil", CounterSignature |-> "nil"]
noVerified == [err |-> "", SigningTime |-> "nil", warned |-> FALSE]
noStamp ==
    [pc |-> "none", timestamper |-> FALSE, authenticode |-> FALSE,
     attrs0 |-> <<>>, attrs |-> <<>>, trace |-> <<>>, ts |-> "nil",
     ret |-> noReturn, token |-> noToken, encryptedDigest |-> "",
     ms |-> noVerified]

\* The archives handed to FindDirectory and ReadWithDirectory alone.  An
\* input carries, beside its bytes, how it was made: kind, and for a single
\* record which base fields hold the sentinel (S), whether its extra field
\* has a ZIP64 block (has), after a block of another tag (lead), and how
\* many 64-bit values the block holds (k).
Input(pre, cd, kind, S, has, lead, k) ==
    [pre |-> pre, cd |-> cd, kind |-> kind, S |-> S, has |-> has,
     lead |-> lead, k |-> k]
noArchive == Input(0, <<>>, "none", {}, FALSE, FALSE, 0)

\* The i-th 64-bit value of a ZIP64 block of the inputs: none fits 32 bits.
ZV(i) == uint32Max + 10 + i

\* One record: the fields in S hold the sentinel in the base record, the
\* others 20 (uncompressed), 10 (compressed) and 5 (offset); then the end
\* record.
RecordInputs ==
    { LET extra == IF ~x.has THEN <<>>
                   ELSE (IF x.lead THEN ExtraBlock(21589, Zeros(5)) ELSE <<>>)
                        \o ExtraBlock(zip64ExtraID,
                                      Vals64([i \in 1..x.k |-> ZV(i)]))
          rec == Rec(<<97>>, zip45, 11,
                     IF "C" \in S THEN uint32Max ELSE 10,
                     IF "U" \in S THEN uint32Max ELSE 20,
                     IF "O" \in S THEN uint32Max ELSE 5, extra, <<>>)
      IN Input(100, rec \o PlainEnd(1, Len(rec), 100), "record", S, x.has,
               x.lead, x.k)
      : S \in SUBSET {"U", "C", "O"},
        x \in {[has |-> FALSE, lead |-> FALSE, k |-> 0]}
              \cup [has : {TRUE}, lead : BOOLEAN, k : 0..3] }

\* Archives by their tail: an end record whose count, size and offset hold
\* the sentinel or not (sc, ss, so), after a ZIP64 end record and locator
\* ("zip64"), after a locator that names a place holding no ZIP64 end record
\* ("stray") or a place past the end ("past"), after a plain record
\* ("plain"), alone in the archive ("empty"), after ten bytes only
\* ("short"); and an archive that ends in no end record ("noend").
TailInputs ==
    { LET rec == Rec(<<97>>, zip20, 11, 10, 10, 0, <<>>, <<>>)
          pre == IF kind = "empty" THEN 0 ELSE IF kind = "short" THEN 10
                 ELSE 60
          n == IF kind \in {"empty", "short"} THEN 0 ELSE 1
          size == IF kind \in {"empty", "short"} THEN 0 ELSE Len(rec)
          end == EncEnd([Signature |-> IF kind = "noend" THEN 0
                                       ELSE directoryEndSignature,
                         DiskCDCount |-> IF sc THEN uint16Max ELSE n,
                         TotalCDCount |-> IF sc THEN uint16Max ELSE n,
                         CDSize |-> IF ss THEN uint32Max ELSE size,
                         CDOffset |-> IF so THEN uint32Max ELSE pre])
          end64 == EncEnd64([Signature |-> directory64EndSignature,
                             RecordSize |-> directory64EndLen - 12,
                             CreatorVersion |-> zip45,
                             ReaderVersion |-> zip45, DiskCDCount |-> n,
                             TotalCDCount |-> n, CDSize |-> size,
                             CDOffset |-> pre])
          loc(off) == EncLoc64([Signature |-> directory64LocSignature,
                                Offset |-> off, DiskCount |-> 1])
          cd == CASE kind = "zip64" -> rec \o end64 \o loc(pre + size) \o end
                  [] kind = "stray" -> rec \o end64 \o loc(0) \o end
                  [] kind = "past" -> rec \o end64 \o loc(pre + 500) \o end
                  [] kind \in {"plain", "noend"} -> rec \o end
                  [] OTHER -> end
      IN Input(pre, cd, kind, {}, FALSE, FALSE, 0)
      : kind \in {"zip64", "stray", "past", "plain", "empty", "short",
                  "noend"},
        sc \in BOOLEAN, ss \in BOOLEAN, so \in BOOLEAN }

\* --------------------------------------------------- directory operations
InitDir ==
    /\ \E r \in {Read(a) : a \in StartArchives} \cup {noDirectory("ok")} :
          /\ r.err = "ok"
          /\ d = DirOf(r)
          /\ heap = r.File \o SrcFiles
    /\ nadd = 0
    /\ res = noRes
    /\ arch = noArchive
    /\ sr = noStream
    /\ stamp = noStamp

Working == res.op \in {"none", "add"}

\* d.AddFile(f), f the File object at address f of the heap.
AddFile(f) ==
    LET size == GetTotalSize(heap[f])
        offset == d.DirLoc
    IN /\ Working
       /\ nadd < MaxAdds
       /\ res' = [noRes EXCEPT !.op = "add",
                    !.a = [noAdd EXCEPT !.f = f, !.ok = size.ok,
                             !.before = heap[f], !.DirLoc = d.DirLoc,
                             !.File = d.File, !.heap = heap]]
       /\ IF ~size.ok THEN UNCHANGED <<heap, d, nadd>>
          ELSE /\ heap' = [heap EXCEPT ![f] = Placed(heap[f], offset)]
               /\ d' = [d EXCEPT !.DirLoc = Advance(d.DirLoc, size.size),
                                 !.File = Append(d.File, f)]
               /\ nadd' = nadd + 1
       /\ UNCHANGED <<arch, sr, stamp>>

\* d.AddFileContents(f, w), f the File object at address f of the heap, an
\* entry of another directory: the local header and the data are copied to
\* w (res.a.w bytes), then d.AddFile(f).
AddFileContents(f) ==
    LET lfh == GetLocalHeader(heap[f])
        size == GetTotalSize(heap[f])
        offset == d.DirLoc
    IN /\ Working
       /\ nadd < MaxAdds
       /\ res' = [noRes EXCEPT !.op = "add",
                    !.a = [noAdd EXCEPT !.f = f, !.ok = lfh.ok /\ size.ok,
                             !.before = heap[f], !.DirLoc = d.DirLoc,
                             !.File = d.File, !.heap = heap,
                             !.contents = TRUE,
                             !.w = IF lfh.ok
                                   THEN lfh.len + heap[f].CompressedSize
                                   ELSE 0]]
       /\ IF ~(lfh.ok /\ size.ok) THEN UNCHANGED <<heap, d, nadd>>
          ELSE /\ heap' = [heap EXCEPT ![f] = Placed(heap[f], offset)]
               /\ d' = [d EXCEPT !.DirLoc = Advance(d.DirLoc, size.size),
                                 !.File = Append(d.File, f)]
               /\ nadd' = nadd + 1
       /\ UNCHANGED <<arch, sr, stamp>>

\* d.WriteDirectory(wcd, weod, forceZip64).
DoWriteDirectory(forceZip64) ==
    /\ Working
    /\ res' = [noRes EXCEPT !.op = "write", !.forceZip64 = forceZip64,
                 !.w = WriteDirectory(Files(heap, d), d.DirLoc, forceZip64)]
    /\ UNCHANGED <<heap, d, nadd, arch, sr, stamp>>

\* d.Truncate(n, body, dir).
DoTruncate(n) ==
    /\ Working
    /\ res' = [noRes EXCEPT !.op = "truncate", !.n = n,
                 !.t = Truncate(d, Files(heap, d), n)]
    /\ UNCHANGED <<heap, d, nadd, arch, sr, stamp>>

NextDir ==
    \/ \E f \in Len(d.File) - nadd + 1 .. Len(heap) : AddFile(f)
    \/ \E f \in Len(d.File) - nadd + 1 .. Len(heap) : AddFileContents(f)
    \/ \E forceZip64 \in BOOLEAN : DoWriteDirectory(forceZip64)
    \/ \E n \in 0..Len(d.File) : DoTruncate(n)

Spec == InitDir /\ [][NextDir]_vars

\* ------------------------------------------------------- reading archives
InitRead ==
    /\ arch \in RecordInputs \cup TailInputs
    /\ heap = <<>>
    /\ d = zeroDirectory
    /\ nadd = 0
    /\ res = noRes
    /\ sr = noStream
    /\ stamp = noStamp

\* FindDirectory(r, size) on the archive.
DoFindDirectory ==
    /\ res.op = "none"
    /\ res' = [noRes EXCEPT !.op = "find", !.found = FindDirectory(arch)]
    /\ UNCHANGED <<heap, d, nadd, arch, sr, stamp>>

\* ReadWithDirectory(r, size, cd) on the archive's directory bytes.
DoReadWithDirectory ==
    /\ res.op = "none"
    /\ res' = [noRes EXCEPT !.op = "read",
                 !.rd = ReadWithDirectory(ArchiveSize(arch), arch.cd)]
    /\ UNCHANGED <<heap, d, nadd, arch, sr, stamp>>

NextRead == DoFindDirectory \/ DoReadWithDirectory

SpecRead == InitRead /\ [][NextRead]_vars

\* ---------------------------------------------------------- stream reading
\* ReadStream(r, size, cd) wraps the stream r in a streamReaderAt at 0.
InitStream ==
    /\ \E len \in 0..MaxStream : sr = [len |-> len, pos |-> 0, under |-> 0]
    /\ stamp = noStamp
    /\ heap = <<>>
    /\ d = zeroDirectory
    /\ nadd = 0
    /\ res = noRes
    /\ arch = noArchive

\* The counts the stream's Read may return for a buffer of dlen bytes with
\* rem bytes left: at least one byte when there is one and room for it.
ReadCounts(rem, dlen) ==
    IF rem = 0 \/ dlen = 0 THEN {0}
    ELSE 1..(IF rem < dlen THEN rem ELSE dlen)

\* One ReadAt(d, p) on the wrapping reader; res.s keeps the call, what it
\* returned, and the position and consumption before it.
DoReadAt(p, dlen) ==
    LET rem == IF p > sr.pos THEN sr.len - sr.under - (p - sr.pos)
               ELSE sr.len - sr.under
    IN \E n \in ReadCounts(IF rem < 0 THEN 0 ELSE rem, dlen) :
          LET out == StreamReadAt(sr, p, dlen, n)
          IN /\ sr' = out.sr
             /\ res' = [noRes EXCEPT !.op = "readat",
                          !.s = [p |-> p, dlen |-> dlen, n |-> out.n,
                                 err |-> out.err, pos |-> sr.pos,
                                 under |-> sr.under]]
             /\ UNCHANGED <<heap, d, nadd, arch, stamp>>

NextStream == \E p \in 0..MaxStream + 1, dlen \in 0..MaxRead : DoReadAt(p, dlen)

SpecStream == InitStream /\ [][NextStream]_vars

\* ------------------------------------------------------------ timestamps
\* The inputs of VerifyMicrosoftToken.
Digests == {"digest1", "digest2"}
Times == {"time1", "time2"}
Tokens ==
    [sigOK : BOOLEAN, content : Digests \cup {"unreadable"},
     signingTime : Times \cup {"none"}]

\* A call TimestampAndMarshal(ctx, psd, timestamper, authenticode) about to
\* start: with or without a timestamper, psd's first SignerInfo with no
\* unauthenticated attribute or with a counter-signature.
InitStamp ==
    /\ \E t \in BOOLEAN, a \in BOOLEAN,
          attrs \in {<<>>, <<OidAttributeCounterSign>>} :
          stamp = [noStamp EXCEPT !.pc = "call", !.timestamper = t,
                     !.authenticode = a, !.attrs0 = attrs, !.attrs = attrs]
    /\ heap = <<>>
    /\ d = zeroDirectory
    /\ nadd = 0
    /\ res = noRes
    /\ arch = noArchive
    /\ sr = noStream

Fail(err, event) ==
    [stamp EXCEPT !.pc = "done", !.ret = [noReturn EXCEPT !.err = err],
                  !.trace = Append(stamp.trace, event)]
Step(pc, event) ==
    [stamp EXCEPT !.pc = pc, !.trace = Append(stamp.trace, event)]

\* if timestamper != nil
Enter ==
    /\ stamp.pc = "call"
    /\ stamp' = [stamp EXCEPT !.pc = IF stamp.timestamper THEN "timestamp"
                                     ELSE "verify"]
    /\ UNCHANGED <<heap, d, nadd, res, arch, sr>>

\* PkixDigestToHash, timestamper.Timestamp: either may fail.
Timestamp ==
    /\ stamp.pc = "timestamp"
    /\ \E hashOK \in BOOLEAN, tokenOK \in BOOLEAN :
          stamp' = IF ~hashOK
                   THEN Fail("unknown digest algorithm", "hash failed")
                   ELSE IF ~tokenOK
                   THEN Fail("timestamper", "timestamp failed")
                   ELSE Step("attach", "timestamp")
    /\ UNCHANGED <<heap, d, nadd, res, arch, sr>>

\* AddStampToSignedAuthenticode / AddStampToSignedData: Add may fail.
AddStamp ==
    /\ stamp.pc = "attach"
    /\ \E addOK \in BOOLEAN :
          stamp' = IF ~addOK THEN Fail("add", "attach failed")
                   ELSE [Step("verify", "attach") EXCEPT
                           !.attrs = Append(stamp.attrs,
                                            StampOid(stamp.authenticode))]
    /\ UNCHANGED <<heap, d, nadd, res, arch, sr>>

\* psd.Content.Verify(nil, false)
SelfCheck ==
    /\ stamp.pc = "verify"
    /\ \E sigOK \in BOOLEAN :
          stamp' = IF ~sigOK
                   THEN Fail("pkcs7: failed signature self-check",
                             "verify failed")
                   ELSE Step("verifyts", "verify")
    /\ UNCHANGED <<heap, d, nadd, res, arch, sr>>

\* VerifyOptionalTimestamp(verified)
CheckTimestamp ==
    /\ stamp.pc = "verifyts"
    /\ \E tsOK \in BOOLEAN :
          LET ts == VerifyOptionalTimestamp(stamp.attrs, tsOK)
          IN stamp' = IF ts.err # "ok"
                      THEN Fail("pkcs7: failed signature self-check",
                                "verifyts failed")
                      ELSE [Step("marshal", "verifyts") EXCEPT !.ts = ts.cs]
    /\ UNCHANGED <<heap, d, nadd, res, arch, sr>>

\* psd.Marshal(); ts.Raw = blob; return &ts
Marshal ==
    /\ stamp.pc = "marshal"
    /\ \E marshalOK \in BOOLEAN :
          stamp' = IF ~marshalOK THEN Fail("marshal", "marshal failed")
                   ELSE [Step("done", "marshal") EXCEPT
                           !.ret = [err |-> "ok", Raw |-> "blob",
                                    CounterSignature |-> stamp.ts]]
    /\ UNCHANGED <<heap, d, nadd, res, arch, sr>>

\* VerifyMicrosoftToken(token, encryptedDigest), a call of its own.
DoVerifyMicrosoftToken(token, encryptedDigest) ==
    /\ stamp.pc = "call"
    /\ stamp' = [stamp EXCEPT !.pc = "verified", !.token = token,
                   !.encryptedDigest = encryptedDigest,
                   !.ms = VerifyMicrosoftToken(token, encryptedDigest)]
    /\ UNCHANGED <<heap, d, nadd, res, arch, sr>>

NextStamp ==
    \/ Enter
    \/ Timestamp
    \/ AddStamp
    \/ SelfCheck
    \/ CheckTimestamp
    \/ Marshal
    \/ \E token \in Tokens, encryptedDigest \in Digests :
          DoVerifyMicrosoftToken(token, encryptedDigest)

SpecStamp == InitStamp /\ [][NextStamp]_vars

\* ----------------------------------------------------------------- claims
\* What the claims say of a directory, stated from the File objects and the
\* bytes written, not from the operators above.
Entries == Files(heap, d)
Versions == {Entries[i].ReaderVersion : i \in 1..Len(Entries)}
WrittenSize == Len(res.w.wcd)
Wrote64 ==
    /\ Len(res.w.weod) = directory64EndLen + directory64LocLen + directoryEndLen
    /\ Get(res.w.weod, 0) = directory64EndSignature
    /\ Get(res.w.weod, directory64EndLen) = directory64LocSignature
    /\ Get(res.w.weod, directory64EndLen + directory64LocLen)
         = directoryEndSignature
WroteOnly32(count, size, off) ==
    /\ Len(res.w.weod) = directoryEndLen
    /\ Get(res.w.weod, 0) = directoryEndSignature
    /\ Get(res.w.weod, 8) = count
    /\ Get(res.w.weod, 10) = count
    /\ Get(res.w.weod, 12) = size
    /\ Get(res.w.weod, 16) = off
LimitExceeded ==
    \/ res.forceZip64
    \/ Len(Entries) >= uint16Max
    \/ WrittenSize >= uint32Max
    \/ d.DirLoc >= uint32Max
HighestIs45 == zip45 \in Versions /\ \A v \in Versions : v <= zip45

\* C1, as claimed: WriteDirectory writes the ZIP64 end record and locator
\* if and only if forceZip64 is set or the count, the size of the headers
\* or DirLoc reaches its limit; otherwise it writes only the 32-bit end
\* record with the exact count, size and offset, whatever the entries'
\* ReaderVersion.
C1_Zip64IffLimit ==
    res.op = "write" =>
        /\ Wrote64 <=> LimitExceeded
        /\ ~LimitExceeded => WroteOnly32(Len(Entries), WrittenSize, d.DirLoc)

\* C1, amended: WriteDirectory writes the ZIP64 end record and locator if
\* and only if forceZip64 is set, or the count, the size of the headers or
\* DirLoc reaches its limit, or the highest ReaderVersion among the entries
\* is exactly 45; in every other case it writes only the 32-bit end record,
\* with the exact count, size and offset.
C1_Zip64IffLimitOrVersion45 ==
    res.op = "write" =>
        /\ Wrote64 <=> (LimitExceeded \/ HighestIs45)
        /\ ~(LimitExceeded \/ HighestIs45)
             => WroteOnly32(Len(Entries), WrittenSize, d.DirLoc)

\* C1, the corrected case: no limit is reached and nothing is forced, an
\* entry needs version 4.5, and the ZIP64 records are written.
C1_Witness ==
    /\ res.op = "write"
    /\ ~LimitExceeded
    /\ HighestIs45
    /\ Wrote64

\* C2: the ReaderVersion of a ZIP64 end record that WriteDirectory writes is
\* the maximum of 45 and every entry's ReaderVersion.
C2_Version64IsMax ==
    (res.op = "write" /\ Wrote64) =>
        /\ Get(res.w.weod, 14) \in Versions \cup {zip45}
        /\ \A v \in Versions \cup {zip45} : Get(res.w.weod, 14) >= v

\* C3: the bytes WriteDirectory emits, read back by ReadWithDirectory with
\* size = DirLoc + their length, are accepted and yield the same entries in
\* order (name, CRC32, sizes, offset) and the same DirLoc.
SameEntry(f, g) ==
    /\ f.Name = g.Name
    /\ f.CRC32 = g.CRC32
    /\ f.CompressedSize = g.CompressedSize
    /\ f.UncompressedSize = g.UncompressedSize
    /\ f.Offset = g.Offset
C3_RoundTrip ==
    res.op = "write" =>
        LET bytes == res.w.wcd \o res.w.weod
            back == ReadWithDirectory(d.DirLoc + Len(bytes), bytes)
        IN /\ back.err = "ok"
           /\ Len(back.File) = Len(Entries)
           /\ \A i \in 1..Len(Entries) : SameEntry(back.File[i], Entries[i])
           /\ back.DirLoc = d.DirLoc

\* C3's case: a directory of several entries, one of them a ZIP64 file
\* whose header is serialized afresh, written with the ZIP64 records.
C3_Witness ==
    /\ res.op = "write"
    /\ Wrote64
    /\ Len(Entries) >= 2
    /\ \E i \in 1..Len(Entries) :
          Entries[i].raw = <<>> /\ Entries[i].Offset >= uint32Max

\* C4: for a directory obtained by Read and every n from 0 to its number of
\* entries, Truncate(n, body, dir) succeeds and Read of body followed by dir
\* yields n entries equal (name, CRC32, sizes, offset) to the first n of d,
\* for archives with and without the ZIP64 records.
FromRead == nadd = 0 /\ d.end.Signature = directoryEndSignature
C4_TruncateThenRead ==
    (res.op = "truncate" /\ FromRead) =>
        LET back == Read(Archive(res.t.body, res.t.dir))
        IN /\ res.t.err = "ok"
           /\ back.err = "ok"
           /\ Len(back.File) = res.n
           /\ \A i \in 1..res.n : SameEntry(back.File[i], Entries[i])

\* C5: on a directory whose archive had no ZIP64 records, Truncate(n, ...)
\* fails with 'too big for 32-bit ZIP' whenever the count n, the size of the
\* n headers or the directory offset reaches its 32-bit limit, and when it
\* succeeds the end record holds exactly n, that size and that offset.
\* (Stated for n below the number of entries, where the directory offset is
\* the offset of entry n.)
TruncatedSize ==
    LET RECURSIVE Sum(_)
        Sum(i) == IF i = 0 THEN 0
                  ELSE Len(GetDirectoryHeader(Entries[i])) + Sum(i - 1)
    IN Sum(res.n)
C5_TruncateChecks32 ==
    (/\ res.op = "truncate"
     /\ d.end.Signature = directoryEndSignature
     /\ d.end64.Signature = 0
     /\ res.n < Len(Entries)) =>
        LET off == Entries[res.n + 1].Offset
            tail == Drop(res.t.dir, Len(res.t.dir) - directoryEndLen)
        IN /\ (res.n >= uint16Max \/ TruncatedSize >= uint32Max
               \/ off >= uint32Max)
                => res.t.err = "file too big for 32-bit ZIP"
           /\ res.t.err = "ok"
                => /\ Get(tail, 0) = directoryEndSignature
                   /\ Get(tail, 10) = res.n
                   /\ Get(tail, 12) = TruncatedSize
                   /\ Get(tail, 16) = off

\* C10: a successful AddFile(f) sets f.Offset to the DirLoc before the call,
\* advances DirLoc by f's total size, appends f, and drops f's cached header
\* exactly when f's offset differed from that DirLoc; a failing AddFile
\* leaves File and DirLoc as they were.
C10_AddFileStep ==
    res.op = "add" =>
        IF res.a.ok
        THEN /\ heap[res.a.f].Offset = res.a.DirLoc
             /\ d.DirLoc = res.a.DirLoc + fileHeaderLen
                           + Len(res.a.before.Name)
                           + res.a.before.CompressedSize
             /\ d.File = Append(res.a.File, res.a.f)
             /\ heap[res.a.f].raw =
                  (IF res.a.before.Offset # res.a.DirLoc THEN <<>>
                   ELSE res.a.before.raw)
        ELSE d.File = res.a.File /\ d.DirLoc = res.a.DirLoc

\* C10, the consequence claimed: each appended entry's offset is the
\* previous appended entry's offset plus its total size, and the offsets of
\* the appended entries strictly increase.
Appended == (Len(d.File) - nadd + 1)..Len(d.File)
C10_AppendedOffsetsChain ==
    \A i \in Appended : (i + 1) \in Appended =>
        /\ Entries[i + 1].Offset
             = Entries[i].Offset + fileHeaderLen + Len(Entries[i].Name)
               + Entries[i].CompressedSize
        /\ Entries[i + 1].Offset > Entries[i].Offset

\* C10, whole.
C10_AddFile == C10_AddFileStep /\ C10_AppendedOffsetsChain

\* C6: with the ZIP64 extra of a record holding exactly one value for each
\* base field that is the sentinel, in the order uncompressed size,
\* compressed size, offset, ReadWithDirectory accepts the record and gives
\* each sentinel field its own value (and leaves the others as they are).
Rank(S, x) ==
    Cardinality({y \in S : \/ y = x
                           \/ y = "U"
                           \/ (y = "C" /\ x = "O")})
Expected(S, x, base) == IF x \in S THEN ZV(Rank(S, x)) ELSE base
C6_Zip64ExtraBySentinel ==
    (/\ res.op = "read"
     /\ arch.kind = "record"
     /\ arch.has
     /\ arch.k = Cardinality(arch.S)) =>
        /\ res.rd.err = "ok"
        /\ Len(res.rd.File) = 1
        /\ res.rd.File[1].UncompressedSize = Expected(arch.S, "U", 20)
        /\ res.rd.File[1].CompressedSize = Expected(arch.S, "C", 10)
        /\ res.rd.File[1].Offset = Expected(arch.S, "O", 5)

\* C7: ReadWithDirectory refuses a record in which a field holds the
\* sentinel and the ZIP64 extra is absent or too short to supply it, and no
\* entry of a directory it returns keeps the sentinel as a size or offset.
C7_MissingZip64Refused ==
    (res.op = "read" /\ arch.kind = "record") =>
        /\ (arch.S # {} /\ (~arch.has \/ arch.k < Cardinality(arch.S)))
             => res.rd.err # "ok"
        /\ res.rd.err = "ok" =>
             \A i \in 1..Len(res.rd.File) :
                /\ res.rd.File[i].UncompressedSize # uint32Max
                /\ res.rd.File[i].CompressedSize # uint32Max
                /\ res.rd.File[i].Offset # uint32Max

\* C8: on an archive whose last 22 bytes are an end record, FindDirectory
\* returns the record's CDOffset when neither count, size nor offset is the
\* sentinel; when one is, it returns the CDOffset of the ZIP64 end record
\* at the offset the locator names, and an error when the 20 bytes before
\* the end record are no locator or that offset holds no ZIP64 end record.
Whole == Zeros(arch.pre) \o arch.cd
C8_FindDirectory ==
    LET n == Len(Whole)
        end == Drop(Whole, n - directoryEndLen)
        locb == SubSeq(Whole, n - directoryEndLen - directory64LocLen + 1,
                       n - directoryEndLen)
        sentinel == \/ Get(end, 10) = uint16Max
                    \/ Get(end, 12) = uint32Max
                    \/ Get(end, 16) = uint32Max
        hasLoc == /\ n >= directoryEndLen + directory64LocLen
                  /\ Get(locb, 0) = directory64LocSignature
        at == Get(locb, 8)
        has64 == /\ hasLoc
                 /\ at + directory64EndLen <= n
                 /\ Get(Drop(Whole, at), 0) = directory64EndSignature
    IN (/\ res.op = "find"
        /\ n >= directoryEndLen
        /\ Get(end, 0) = directoryEndSignature) =>
           IF ~sentinel
           THEN res.found.err = "ok" /\ res.found.loc = Get(end, 16)
           ELSE IF has64
                THEN /\ res.found.err = "ok"
                     /\ res.found.loc = Get(Drop(Whole, at), 48)
                ELSE res.found.err # "ok"

\* C9: in stream mode a ReadAt at an offset below the position returns an
\* error, takes nothing from the stream and leaves the position; a ReadAt
\* at or beyond the position skips the stream forward to the offset and
\* reads there (when the stream ends before the offset the skip fails and
\* the position stays); the position never decreases.
C9_ForwardOnly ==
    res.op = "readat" =>
        LET c == res.s
            gap == c.p - c.pos
        IN /\ c.p < c.pos =>
                /\ c.err # "ok"
                /\ c.n = 0
                /\ sr.under = c.under
                /\ sr.pos = c.pos
           /\ (c.p >= c.pos /\ sr.len - c.under >= gap) =>
                /\ sr.under = c.under + gap + c.n
                /\ sr.pos = c.p + c.n
           /\ (c.p >= c.pos /\ sr.len - c.under < gap) =>
                /\ c.err # "ok"
                /\ c.n = 0
                /\ sr.pos = c.pos
           /\ sr.pos >= c.pos

\* C9's cases: a backward ReadAt refused after the reader has moved on, and
\* a ReadAt that skipped forward and read.
C9_Witness ==
    /\ res.op = "readat"
    /\ res.s.p < res.s.pos
    /\ res.s.err = "attempted to seek backwards"
    /\ sr.pos > 0
C9_WitnessSkip ==
    /\ res.op = "readat"
    /\ res.s.p > res.s.pos
    /\ res.s.n > 0
    /\ sr.pos = res.s.p + res.s.n

\* C11: in every state reached by Read followed by AddFile calls, the
\* Directory's Size equals DirLoc plus the size of its serialized central
\* directory and end records: the headers of its entries, the ZIP64 end
\* record and locator when the directory holds them, and the end record.
SerializedSize ==
    LET RECURSIVE Sum(_)
        Sum(i) == IF i = 0 THEN 0
                  ELSE Len(GetDirectoryHeader(Entries[i])) + Sum(i - 1)
    IN Sum(Len(Entries))
       + (IF d.end64.Signature # 0
          THEN directory64EndLen + directory64LocLen ELSE 0)
       + directoryEndLen
C11_SizeIsDirLocPlusDirectory ==
    (d.end.Signature = directoryEndSignature /\ Working) =>
        d.Size = d.DirLoc + SerializedSize

\* C12: TimestampAndMarshal returns the marshalled bytes only after its
\* structure has passed the signature check and then the timestamp check,
\* with or without a timestamper; when the timestamper fails, the attribute
\* cannot be attached or either check fails it returns an error and no
\* result; with a timestamper the token is attached exactly once, under
\* the Authenticode type when authenticode is set and the generic type
\* otherwise, before the checks run.
Events(e) == {i \in 1..Len(stamp.trace) : stamp.trace[i] = e}
Failed ==
    \E i \in 1..Len(stamp.trace) :
       stamp.trace[i] \in {"timestamp failed", "attach failed",
                           "verify failed", "verifyts failed"}
C12_SelfCheckedBeforeEmission ==
    /\ stamp.ret.Raw # "nil" =>
          /\ stamp.ret.err = "ok"
          /\ \E i \in Events("verify"), j \in Events("verifyts"),
                k \in Events("marshal") : i < j /\ j < k
          /\ ~Failed
    /\ Failed =>
          /\ stamp.pc = "done"
          /\ stamp.ret.err # "ok"
          /\ stamp.ret.Raw = "nil"
          /\ stamp.ret.CounterSignature = "nil"
    /\ ~stamp.timestamper => stamp.attrs = stamp.attrs0
    /\ (stamp.timestamper
        /\ Events("verify") \cup Events("verify failed") # {}) =>
          /\ stamp.attrs
               = Append(stamp.attrs0,
                        IF stamp.authenticode THEN OidSpcTimeStampToken
                        ELSE OidAttributeTimeStampToken)
          /\ Cardinality(Events("attach")) = 1
          /\ \A i \in Events("attach"),
                j \in Events("verify") \cup Events("verify failed") : i < j

\* C12's case: a call with a timestamper for Authenticode that returned the
\* marshalled bytes and the verified token.
C12_Witness ==
    /\ stamp.pc = "done"
    /\ stamp.timestamper
    /\ stamp.authenticode
    /\ stamp.ret.err = "ok"
    /\ stamp.ret.Raw = "blob"
    /\ stamp.ret.CounterSignature = "token"

\* C13: for a token whose signature verifies, whose content can be read
\* and which has a signing time, VerifyMicrosoftToken returns that signing
\* time and no error whether or not the content equals EncryptedDigest (a
\* mismatch is only warned of); it returns an error only when the
\* signature fails, the content cannot be read or the signing time is
\* missing.
C13_MismatchOnlyWarned ==
    stamp.pc = "verified" =>
        LET good == /\ stamp.token.sigOK
                    /\ stamp.token.content # "unreadable"
                    /\ stamp.token.signingTime # "none"
        IN /\ good => /\ stamp.ms.err = "ok"
                      /\ stamp.ms.SigningTime = stamp.token.signingTime
           /\ stamp.ms.err # "ok" => ~good
           /\ stamp.ms.warned
                <=> (/\ stamp.token.sigOK
                     /\ stamp.token.content # "unreadable"
                     /\ stamp.token.content # stamp.encryptedDigest)

\* C13's case: a good token whose content differs from EncryptedDigest,
\* accepted with its signing time.
C13_Witness ==
    /\ stamp.pc = "verified"
    /\ stamp.token.sigOK
    /\ stamp.token.content \in Digests
    /\ stamp.token.content # stamp.encryptedDigest
    /\ stamp.token.signingTime \in Times
    /\ stamp.ms.err = "ok"
    /\ stamp.ms.SigningTime = stamp.token.signingTime

\* C14: AddFileContents(f, w), f an entry of another directory, leaves that
\* directory as it was: after the call every entry of the source, f
\* included, has the offset and the cached raw header it had before.
Source == (Len(d.File) - nadd + 1)..Len(heap)
C14_SourceUnchanged ==
    (res.op = "add" /\ res.a.contents) =>
        \A a \in Source :
           /\ heap[a].Offset = res.a.heap[a].Offset
           /\ heap[a].raw = res.a.heap[a].raw

====
